---- MODULE Spec2Model ----
(***************************************************************************)
(* GJK-3D (OBB): the Gilbert-Johnson-Keerthi intersection test of          *)
(* GJK3D/GJK-3D/Main.cpp as a state machine.                               *)
(*                                                                         *)
(* Points and directions are glm::vec3 values.  Every hull of the model    *)
(* has small integer coordinates, on which float arithmetic is exact (all  *)
(* intermediate products stay far below 2^24), so a vector is a triple of  *)
(* integers and the sign of every dot product is the sign the program      *)
(* computes.  The cube model's corners (+-0.25) are scaled by 4; every     *)
(* test of the algorithm is homogeneous in the hull coordinates, so the    *)
(* scaling changes no verdict.                                             *)
(***************************************************************************)
EXTENDS Integers, Sequences, FiniteSets, TLC

(***************************************************************************)
(* Bounds of the model.                                                    *)
(***************************************************************************)
\* the centre of the second hull ranges over -MaxCentre..MaxCentre along x,
\* the axis the moving object travels along, and over -MaxOffset..MaxOffset
\* along y and z
MaxCentre == 4
MaxOffset == 1
\* cap of the loop counter of TestGJK (the loop itself has no bound)
MaxIter == 22
\* cap of the length of the simplex in the loop of TestGJK (the vector itself
\* has none; a call run on its own never holds more than 4 points)
MaxLen == 6
\* the sweep moves a box from x = -SweepHalf to x = SweepHalf in unit steps
SweepHalf == 8
\* the newest point of a simplex ContainsOrigin is applied to on its own has
\* coordinates in -MaxCoord..MaxCoord
MaxCoord == 1
\* the distance obj2 moves in one update(), in units of 0.0125 (the program
\* moves it by speed * physicsStep = 0.0108, 0.864 units)
MoveStep == 1

(***************************************************************************)
(* glm::vec3 arithmetic.                                                   *)
(***************************************************************************)
Zero == <<0, 0, 0>>

Neg(u) == <<0 - u[1], 0 - u[2], 0 - u[3]>>

Add(u, v) == <<u[1] + v[1], u[2] + v[2], u[3] + v[3]>>

Sub(u, v) == <<u[1] - v[1], u[2] - v[2], u[3] - v[3]>>

Scale(k, u) == <<k * u[1], k * u[2], k * u[3]>>

Dot(u, v) == u[1] * v[1] + u[2] * v[2] + u[3] * v[3]

Cross(u, v) == <<u[2] * v[3] - u[3] * v[2],
                 u[3] * v[1] - u[1] * v[3],
                 u[1] * v[2] - u[2] * v[1]>>

(***************************************************************************)
(* The hulls.  struct OBB holds 8 corners; update() fills corner i with    *)
(* the object's transform applied to vertex i of the cube model, so a hull *)
(* is centre + sx*u + sy*v + sz*w for the sign pattern (sx,sy,sz) of       *)
(* vertex i and the transformed half-axes u, v, w.                         *)
(***************************************************************************)
\* the cube model's vertices, in the order init() pushes them (times 4)
Vertices == << <<-1, -1,  1>>, <<-1,  1,  1>>, << 1,  1,  1>>, << 1, -1,  1>>,
               << 1,  1, -1>>, << 1, -1, -1>>, <<-1,  1, -1>>, <<-1, -1, -1>> >>

OBB(c, ax) ==
    [i \in 1..8 |->
        Add(c, Add(Scale(Vertices[i][1], ax[1]),
                   Add(Scale(Vertices[i][2], ax[2]), Scale(Vertices[i][3], ax[3]))))]

\* an axis-aligned cube of the given half extent
Cube(c, h) == OBB(c, << <<h, 0, 0>>, <<0, h, 0>>, <<0, 0, h>> >>)

\* half-axes of the hulls of the model: axis-aligned cubes and boxes, boxes
\* turned by 45 degrees about one coordinate axis, a box turned about a
\* diagonal, and a flat (degenerate) box
Axes == { << <<1, 0, 0>>, <<0, 1, 0>>, <<0, 0, 1>> >>,
          << <<2, 0, 0>>, <<0, 1, 0>>, <<0, 0, 1>> >>,
          << <<1, 1, 0>>, <<-1, 1, 0>>, <<0, 0, 1>> >>,
          << <<1, 0, 1>>, <<0, 1, 0>>, <<-1, 0, 1>> >>,
          << <<1, 2, 2>>, <<2, 1, -2>>, <<2, -2, 1>> >>,
          << <<1, 0, 0>>, <<0, 1, 0>>, <<0, 0, 0>> >> }

Centres == {<<x, y, z>> : x \in -MaxCentre..MaxCentre,
                          y \in -MaxOffset..MaxOffset,
                          z \in -MaxOffset..MaxOffset}

\* the two cubes of the spec's separated-boxes case: unit cubes (half extent
\* 0.5, here 1) centred at (0,0,0) and (10,0,0) (here (20,0,0))
UnitCube == Cube(Zero, 1)

FarCube == Cube(<<20, 0, 0>>, 1)

\* half-axes of the hull kept at the origin: the unit cube, a box turned by
\* 45 degrees and the flat box
OriginAxes == { << <<1, 0, 0>>, <<0, 1, 0>>, <<0, 0, 1>> >>,
                << <<1, 1, 0>>, <<-1, 1, 0>>, <<0, 0, 1>> >>,
                << <<1, 0, 0>>, <<0, 1, 0>>, <<0, 0, 0>> >> }

\* the argument pairs TestGJK is called with, in both orders
Inputs ==
    LET grid == {<<OBB(Zero, ax1), OBB(c, ax2)>> :
                    ax1 \in OriginAxes, ax2 \in Axes, c \in Centres}
        named == {<<UnitCube, FarCube>>}
        all == grid \cup named
    IN  all \cup {<<p[2], p[1]>> : p \in all}

(***************************************************************************)
(* getFarthestPointInDirection and Support.                                *)
(***************************************************************************)
\* Farther with the comparison loosened: a later corner with an equal
\* projection replaces the earlier one
FartherM(proj, maxDist) == proj >= maxDist

\* the test that replaces the farthest point: a strictly larger projection
Farther(proj, maxDist) == proj > maxDist

\* the for loop of getFarthestPointInDirection from corner i (0-based) on
RECURSIVE FarthestLoop(_, _, _, _, _)
FarthestLoop(obj, d, i, maxDist, farthestPoint) ==
    IF i >= 8 THEN farthestPoint
    ELSE IF Farther(Dot(obj[i + 1], d), maxDist)
         THEN FarthestLoop(obj, d, i + 1, Dot(obj[i + 1], d), obj[i + 1])
         ELSE FarthestLoop(obj, d, i + 1, maxDist, farthestPoint)

getFarthestPointInDirection(obj, d) ==
    FarthestLoop(obj, d, 1, Dot(obj[1], d), obj[1])

\* Support without the subtraction: the corner of a alone
SupportM(a, b, d) == getFarthestPointInDirection(a, d)

Support(a, b, d) ==
    LET p1 == getFarthestPointInDirection(a, d)
        p2 == getFarthestPointInDirection(b, Neg(d))
    IN  Sub(p1, p2)

(***************************************************************************)
(* The simplex is a std::vector<glm::vec3>: simplex[k] of the code is      *)
(* s[k + 1] here.                                                          *)
(***************************************************************************)
\* the erase of the first element taking the last one instead
EraseFirstM(s) == SubSeq(s, 1, Len(s) - 1)

\* simplex.erase(simplex.begin())
EraseFirst(s) == SubSeq(s, 2, Len(s))

\* the erase of the last element left out
EraseLastM(s) == s

\* simplex.erase(simplex.end() - 1)
EraseLast(s) == SubSeq(s, 1, Len(s) - 1)

\* clear() left out: the simplex keeps what the previous call left
ClearM(s) == s

\* simplex.clear()
Clear(s) == << >>

\* Outside with the boundary counted as outside
OutsideM(n, ao) == Dot(n, ao) >= 0

\* the face and edge tests of ContainsOrigin and checkTetrahedron: the
\* origin is outside when the dot product with ao = -a is strictly positive
Outside(n, ao) == Dot(n, ao) > 0

\* cross(cross(e, ao), e): the direction perpendicular to edge e towards the origin
DoubleCross(e, ao) == Cross(Cross(e, ao), e)

\* checkTetrahedron with the erase of the face case left out
checkTetrahedronM(s, ao, ab, ac, abc, d) ==
    IF Outside(Cross(ab, abc), ao)
    THEN [ret |-> FALSE, simplex |-> <<s[3], s[4]>>, dir |-> DoubleCross(ab, ao)]
    ELSE IF Outside(Cross(abc, ac), ao)
    THEN [ret |-> FALSE, simplex |-> <<s[2], s[4]>>, dir |-> DoubleCross(ac, ao)]
    ELSE [ret |-> FALSE, simplex |-> <<s[2], s[3], s[4], s[4]>>, dir |-> abc]

\* checkTetrahedron on the 4-point simplex s; the result is the returned
\* value, the simplex it leaves and the direction it writes
checkTetrahedron(s, ao, ab, ac, abc, d) ==
    LET ab_abc == Cross(ab, abc)
        acp == Cross(abc, ac)
    IN  IF Outside(ab_abc, ao)
        THEN LET s1 == [s EXCEPT ![2] = s[3]]
                 s2 == [s1 EXCEPT ![3] = s1[4]]
             IN  [ret |-> FALSE, simplex |-> EraseLast(EraseFirst(s2)),
                  dir |-> DoubleCross(ab, ao)]
        ELSE IF Outside(acp, ao)
        THEN LET s1 == [s EXCEPT ![3] = s[4]]
             IN  [ret |-> FALSE, simplex |-> EraseLast(EraseFirst(s1)),
                  dir |-> DoubleCross(ac, ao)]
        ELSE LET s1 == [s EXCEPT ![1] = s[2]]
                 s2 == [s1 EXCEPT ![2] = s1[3]]
                 s3 == [s2 EXCEPT ![3] = s2[4]]
             IN  [ret |-> FALSE, simplex |-> EraseLast(s3), dir |-> abc]

\* the triangle branch with the swap of the upside-down case left out
ContainsOriginTriangleM(s, d) ==
    LET a == s[3]
        ab == Sub(s[2], a)
        ac == Sub(s[1], a)
        abc == Cross(ab, ac)
    IN  IF Outside(Cross(ab, abc), Neg(a))
        THEN [ret |-> FALSE, simplex |-> <<s[2], a>>, dir |-> DoubleCross(ab, Neg(a))]
        ELSE IF Outside(Cross(abc, ac), Neg(a))
        THEN [ret |-> FALSE, simplex |-> <<s[1], a>>, dir |-> DoubleCross(ac, Neg(a))]
        ELSE IF Outside(abc, Neg(a))
        THEN [ret |-> FALSE, simplex |-> s, dir |-> abc]
        ELSE [ret |-> FALSE, simplex |-> s, dir |-> Neg(abc)]

\* the triangle branch of ContainsOrigin (simplex.size() == 3)
ContainsOriginTriangle(s, d) ==
    LET a == s[3]
        b == s[2]
        c == s[1]
        ab == Sub(b, a)
        ac == Sub(c, a)
        abc == Cross(ab, ac)
        ab_abc == Cross(ab, abc)
        abc_ac == Cross(abc, ac)
    IN  IF Outside(ab_abc, Neg(a))
        THEN LET s1 == [s EXCEPT ![1] = s[2]]
                 s2 == [s1 EXCEPT ![2] = s1[3]]
             IN  [ret |-> FALSE, simplex |-> EraseLast(s2),
                  dir |-> DoubleCross(ab, Neg(a))]
        ELSE IF Outside(abc_ac, Neg(a))
        THEN LET s1 == [s EXCEPT ![2] = s[3]]
             IN  [ret |-> FALSE, simplex |-> EraseLast(s1),
                  dir |-> DoubleCross(ac, Neg(a))]
        ELSE IF Outside(abc, Neg(a))
        THEN [ret |-> FALSE, simplex |-> s, dir |-> abc]
        ELSE LET temp == s[2]
                 s1 == [s EXCEPT ![2] = s[1]]
                 s2 == [s1 EXCEPT ![1] = temp]
             IN  [ret |-> FALSE, simplex |-> s2, dir |-> Neg(abc)]

\* the line branch of ContainsOrigin (simplex.size() == 2)
ContainsOriginLine(s, d) ==
    LET a == s[2]
        b == s[1]
        ab == Sub(b, a)
    IN  [ret |-> FALSE, simplex |-> s, dir |-> DoubleCross(ab, Neg(a))]

\* the tetrahedron branch with the test of face ADB left out
ContainsOriginTetrahedronM(s, dr) ==
    LET a == s[4]
        d == s[1]
        c == s[2]
        b == s[3]
        ab == Sub(b, a)
        ac == Sub(c, a)
        ad == Sub(d, a)
        abc == Cross(ab, ac)
        acd == Cross(ac, ad)
    IN  IF Outside(abc, Neg(a))
        THEN checkTetrahedron(s, Neg(a), ab, ac, abc, dr)
        ELSE IF Outside(acd, Neg(a))
        THEN LET s1 == [s EXCEPT ![3] = s[2]]
                 s2 == [s1 EXCEPT ![2] = s1[1]]
             IN  checkTetrahedron(s2, Neg(a), ac, ad, acd, dr)
        ELSE [ret |-> TRUE, simplex |-> s, dir |-> dr]

\* the tetrahedron branch with face ADB tested before face ACD
ContainsOriginTetrahedronR(s, dr) ==
    LET a == s[4]
        ab == Sub(s[3], a)
        ac == Sub(s[2], a)
        ad == Sub(s[1], a)
    IN  IF Outside(Cross(ab, ac), Neg(a))
        THEN checkTetrahedron(s, Neg(a), ab, ac, Cross(ab, ac), dr)
        ELSE IF Outside(Cross(ad, ab), Neg(a))
        THEN checkTetrahedron(<<s[1], s[3], s[1], a>>, Neg(a), ad, ab, Cross(ad, ab), dr)
        ELSE IF Outside(Cross(ac, ad), Neg(a))
        THEN checkTetrahedron(<<s[1], s[1], s[2], a>>, Neg(a), ac, ad, Cross(ac, ad), dr)
        ELSE [ret |-> TRUE, simplex |-> s, dir |-> dr]

\* the tetrahedron branch of ContainsOrigin (simplex.size() == 4)
ContainsOriginTetrahedron(s, dr) ==
    LET a == s[4]
        d == s[1]
        c == s[2]
        b == s[3]
        ab == Sub(b, a)
        ac == Sub(c, a)
        ad == Sub(d, a)
        abc == Cross(ab, ac)
        acd == Cross(ac, ad)
        adb == Cross(ad, ab)
    IN  IF Outside(abc, Neg(a))
        THEN checkTetrahedron(s, Neg(a), ab, ac, abc, dr)
        ELSE IF Outside(acd, Neg(a))
        THEN LET s1 == [s EXCEPT ![3] = s[2]]
                 s2 == [s1 EXCEPT ![2] = s1[1]]
             IN  checkTetrahedron(s2, Neg(a), ac, ad, acd, dr)
        ELSE IF Outside(adb, Neg(a))
        THEN LET s1 == [s EXCEPT ![2] = s[3]]
                 s2 == [s1 EXCEPT ![3] = s1[1]]
             IN  checkTetrahedron(s2, Neg(a), ad, ab, adb, dr)
        ELSE [ret |-> TRUE, simplex |-> s, dir |-> dr]

\* ContainsOrigin(dir) on a non-empty global simplex s: any other size falls
\* through to the final return false and changes nothing
ContainsOrigin(s, d) ==
    IF Len(s) = 3 THEN ContainsOriginTriangle(s, d)
    ELSE IF Len(s) = 2 THEN ContainsOriginLine(s, d)
    ELSE IF Len(s) = 4 THEN ContainsOriginTetrahedron(s, d)
    ELSE [ret |-> FALSE, simplex |-> s, dir |-> d]

(***************************************************************************)
(* TestGJK run alone, from its first line to its return, as a function of  *)
(* its two arguments.                                                      *)
(***************************************************************************)
Seed == <<1, 1, 1>>

\* Behind with a dot of exactly 0 counted as behind
BehindM(p, d) == Dot(p, d) <= 0

\* the first progress test (line 358)
Behind(p, d) == Dot(p, d) < 0

\* NoProgress with the strict comparison of the first test
NoProgressS(p, d) == Dot(p, d) < 0

\* NoProgress with the comparison inverted
NoProgressM(p, d) == Dot(p, d) >= 0

\* the progress test of the loop (line 370)
NoProgress(p, d) == Dot(p, d) <= 0

\* line 363: the direction perpendicular to the line of the first two points
LineDir(s) == Cross(Cross(Sub(s[1], s[2]), Neg(s[2])), Sub(s[1], s[2]))

Verdict(r) == IF r THEN "Intersect" ELSE "NoIntersect"

\* the while loop with n passes left; "Running" when they are used up
RECURSIVE TestGJKLoop(_, _, _, _, _)
TestGJKLoop(a, b, s, d, n) ==
    IF n = 0 THEN "Running"
    ELSE LET p == Support(a, b, d)
             s1 == Append(s, p)
         IN  IF NoProgress(p, d) THEN Verdict(FALSE)
             ELSE LET r == ContainsOrigin(s1, d)
                  IN  IF r.ret THEN Verdict(TRUE)
                      ELSE TestGJKLoop(a, b, r.simplex, r.dir, n - 1)

TestGJK(a, b) ==
    LET p0 == Support(a, b, Seed)
        s0 == Append(Clear(<< >>), p0)
        d1 == Neg(p0)
        p1 == Support(a, b, d1)
        s1 == Append(s0, p1)
    IN  IF Behind(p1, d1) THEN Verdict(FALSE)
        ELSE TestGJKLoop(a, b, s1, LineDir(s1), MaxIter)

(***************************************************************************)
(* The state.  simplex is the one global std::vector of the program.  An   *)
(* invocation of TestGJK has its parameters A and B (a and b in the code), *)
(* its local dir, its position pc (the line it executes next) and, once it *)
(* has returned, its verdict ret.  iter counts the passes of the while     *)
(* loop, sup records the latest Support call of the invocation (the        *)
(* direction it was given and the point it returned), co the latest        *)
(* ContainsOrigin call (the simplex and the direction it was called with)   *)
(* and entry is the content of the global simplex when the invocation was  *)
(* entered.  pos, half, last and runs belong to the sweep of a box through *)
(* another.  antiStuck is the global of that name, velocity and position    *)
(* are the x components of obj2's velocity and position, and log holds,    *)
(* for the last two runs of update(), the verdict TestGJK gave and whether *)
(* the collision response ran.                                             *)
(***************************************************************************)
VARIABLES simplex, A, B, dir, pc, ret, iter, sup, co, entry, pos, half, last, runs,
          antiStuck, velocity, position, log

vars == <<simplex, A, B, dir, pc, ret, iter, sup, co, entry, pos, half, last, runs,
          antiStuck, velocity, position, log>>

sweepVars == <<pos, half, last, runs>>

updateVars == <<antiStuck, velocity, position, log>>

\* what belongs to the callers of TestGJK
callerVars == <<sweepVars, updateVars>>

\* the invocations of TestGJK that can be in progress at once
Invocations == {1, 2}

NoSupport == [called |-> FALSE, dir |-> Seed, point |-> Zero]

NoCall == [called |-> FALSE, simplex |-> << >>, dir |-> Seed]

\* update(): lengths are in units of 0.0125.  init() gives obj1 the scale
\* 0.85 and obj2 the scale 0.20 of the cube model (half extent 0.25), puts
\* obj2 at x = -0.7, and update() turns obj2 back beyond |x| = 1.35
Half1 == 17

Half2 == 4

StartPos == 0 - 56

BoundX == 108

NoUpdate == [hit |-> FALSE, fired |-> FALSE]

InitUpdate ==
    /\ antiStuck = FALSE
    /\ velocity = 0 - MoveStep
    /\ position = StartPos
    /\ log = <<NoUpdate, NoUpdate>>

InitFrames ==
    /\ simplex = << >>
    /\ A = [t \in Invocations |-> UnitCube]
    /\ B = [t \in Invocations |-> UnitCube]
    /\ dir = [t \in Invocations |-> Seed]
    /\ pc = [t \in Invocations |-> "idle"]
    /\ ret = [t \in Invocations |-> FALSE]
    /\ iter = [t \in Invocations |-> 0]
    /\ sup = [t \in Invocations |-> NoSupport]
    /\ co = [t \in Invocations |-> NoCall]
    /\ entry = [t \in Invocations |-> << >>]

Init ==
    /\ InitFrames
    /\ pos = 0
    /\ half = <<1, 1>>
    /\ last = FALSE
    /\ runs = 0
    /\ InitUpdate

(***************************************************************************)
(* TestGJK, one action per statement group; each action is atomic.         *)
(***************************************************************************)
\* a caller invokes TestGJK(a, b)
Enter(t, a, b) ==
    /\ pc[t] = "idle"
    /\ A' = [A EXCEPT ![t] = a]
    /\ B' = [B EXCEPT ![t] = b]
    /\ pc' = [pc EXCEPT ![t] = "L348"]
    /\ iter' = [iter EXCEPT ![t] = 0]
    /\ sup' = [sup EXCEPT ![t] = NoSupport]
    /\ co' = [co EXCEPT ![t] = NoCall]
    /\ entry' = [entry EXCEPT ![t] = simplex]
    /\ UNCHANGED <<simplex, dir, ret>>

\* the first call of the program: the global simplex is still empty
FirstCall(t, inputs) ==
    /\ pc[t] = "idle"
    /\ simplex = << >>
    /\ \E in \in inputs : Enter(t, in[1], in[2])
    /\ UNCHANGED callerVars

\* any call, first or later: the simplex is as the previous call left it
Call(t, inputs) ==
    /\ pc[t] = "idle"
    /\ \E in \in inputs : Enter(t, in[1], in[2])
    /\ UNCHANGED callerVars

\* lines 348-350: simplex.clear(); dir = vec3(1.0f)
L348(t) ==
    /\ pc[t] = "L348"
    /\ simplex' = Clear(simplex)
    /\ dir' = [dir EXCEPT ![t] = Seed]
    /\ pc' = [pc EXCEPT ![t] = "L352"]
    /\ UNCHANGED <<A, B, ret, iter, sup, co, entry, callerVars>>

\* lines 352-354: push the first support point; dir = -simplex.back()
L352(t) ==
    /\ pc[t] = "L352"
    /\ LET p == Support(A[t], B[t], dir[t])
       IN  /\ simplex' = Append(simplex, p)
           /\ sup' = [sup EXCEPT ![t] = [called |-> TRUE, dir |-> dir[t], point |-> p]]
           /\ dir' = [dir EXCEPT ![t] = Neg(p)]
    /\ pc' = [pc EXCEPT ![t] = "L356"]
    /\ UNCHANGED <<A, B, ret, iter, co, entry, callerVars>>

\* lines 356-363: push the second support point, return false if it is behind
\* the origin, else compute the direction perpendicular to the line.  Reading
\* simplex[1] of a vector of fewer than two points is undefined: any verdict
L356(t) ==
    /\ pc[t] = "L356"
    /\ LET p == Support(A[t], B[t], dir[t])
           s == Append(simplex, p)
       IN  /\ simplex' = s
           /\ sup' = [sup EXCEPT ![t] = [called |-> TRUE, dir |-> dir[t], point |-> p]]
           /\ IF Behind(p, dir[t])
              THEN /\ ret' = [ret EXCEPT ![t] = FALSE]
                   /\ pc' = [pc EXCEPT ![t] = "done"]
                   /\ dir' = dir
              ELSE IF Len(s) < 2
              THEN /\ \E r \in BOOLEAN : ret' = [ret EXCEPT ![t] = r]
                   /\ pc' = [pc EXCEPT ![t] = "done"]
                   /\ dir' = dir
              ELSE /\ dir' = [dir EXCEPT ![t] = LineDir(s)]
                   /\ pc' = [pc EXCEPT ![t] = "L368"]
                   /\ ret' = ret
    /\ UNCHANGED <<A, B, iter, co, entry, callerVars>>

\* lines 368-382: push the next support point; return false if it did not
\* pass the origin along dir
L368(t) ==
    /\ pc[t] = "L368"
    /\ iter[t] < MaxIter
    /\ Len(simplex) < MaxLen
    /\ LET p == Support(A[t], B[t], dir[t])
       IN  /\ simplex' = Append(simplex, p)
           /\ sup' = [sup EXCEPT ![t] = [called |-> TRUE, dir |-> dir[t], point |-> p]]
           /\ IF NoProgress(p, dir[t])
              THEN /\ ret' = [ret EXCEPT ![t] = FALSE]
                   /\ pc' = [pc EXCEPT ![t] = "done"]
              ELSE /\ ret' = ret
                   /\ pc' = [pc EXCEPT ![t] = "L385"]
    /\ iter' = [iter EXCEPT ![t] = iter[t] + 1]
    /\ UNCHANGED <<A, B, dir, co, entry, callerVars>>

\* lines 385-388: ContainsOrigin(dir); return true if it reports the origin
\* enclosed, else go round the loop with the simplex and dir it left.
\* simplex.back() of an empty vector is undefined: any verdict
L385(t) ==
    /\ pc[t] = "L385"
    /\ IF Len(simplex) = 0
       THEN /\ \E r \in BOOLEAN : ret' = [ret EXCEPT ![t] = r]
            /\ pc' = [pc EXCEPT ![t] = "done"]
            /\ UNCHANGED <<simplex, dir, co>>
       ELSE LET r == ContainsOrigin(simplex, dir[t])
            IN  /\ simplex' = r.simplex
                /\ co' = [co EXCEPT ![t] = [called |-> TRUE, simplex |-> simplex,
                                            dir |-> dir[t]]]
                /\ dir' = [dir EXCEPT ![t] = r.dir]
                /\ IF r.ret
                   THEN /\ ret' = [ret EXCEPT ![t] = TRUE]
                        /\ pc' = [pc EXCEPT ![t] = "done"]
                   ELSE /\ ret' = ret
                        /\ pc' = [pc EXCEPT ![t] = "L368"]
    /\ UNCHANGED <<A, B, iter, sup, entry, callerVars>>

\* the caller takes the verdict; the global simplex stays as the call left it
Return(t) ==
    /\ pc[t] = "done"
    /\ pc' = [pc EXCEPT ![t] = "idle"]
    /\ UNCHANGED <<simplex, A, B, dir, ret, iter, sup, co, entry, callerVars>>

(***************************************************************************)
(* Spec: the program's first call of TestGJK, on every pair of Inputs.     *)
(***************************************************************************)
Next ==
    \/ FirstCall(1, Inputs)
    \/ L348(1)
    \/ L352(1)
    \/ L356(1)
    \/ L368(1)
    \/ L385(1)
    \/ Return(1)

Spec == Init /\ [][Next]_vars

(***************************************************************************)
(* SpecRepeat: calls of TestGJK one after another, as update() makes them  *)
(* every physics step; the global simplex is what the previous call left.  *)
(***************************************************************************)
\* the cube sharing a face with UnitCube: half extent 0.5 centred at (1,0,0)
TouchCube == Cube(<<2, 0, 0>>, 1)

RepeatAxes == { << <<1, 0, 0>>, <<0, 1, 0>>, <<0, 0, 1>> >>,
                << <<1, 1, 0>>, <<-1, 1, 0>>, <<0, 0, 1>> >> }

RepeatInputs ==
    {<<OBB(Zero, ax1), OBB(<<x, 0, 0>>, ax2)>> :
        ax1 \in RepeatAxes, ax2 \in RepeatAxes, x \in -MaxCentre..MaxCentre}
    \cup {<<UnitCube, TouchCube>>, <<TouchCube, UnitCube>>, <<UnitCube, FarCube>>}

NextRepeat ==
    \/ Call(1, RepeatInputs)
    \/ L348(1)
    \/ L352(1)
    \/ L356(1)
    \/ L368(1)
    \/ L385(1)
    \/ Return(1)

SpecRepeat == Init /\ [][NextRepeat]_vars

(***************************************************************************)
(* SpecConc: two invocations of TestGJK on independent hull pairs with     *)
(* their statements interleaved.  Both work on the one global simplex.     *)
(***************************************************************************)
ConcInputs == {<<UnitCube, Cube(<<1, 0, 0>>, 1)>>, <<UnitCube, TouchCube>>,
               <<UnitCube, FarCube>>}

NextConc ==
    \E t \in Invocations :
        \/ FirstCall(t, ConcInputs)
        \/ L348(t)
        \/ L352(t)
        \/ L356(t)
        \/ L368(t)
        \/ L385(t)
        \/ Return(t)

SpecConc == Init /\ [][NextConc]_vars

(***************************************************************************)
(* SpecSweep: a box is moved along x from -SweepHalf to SweepHalf in unit  *)
(* steps through a stationary box at the origin, and TestGJK(moving,       *)
(* stationary) is evaluated at every step, as update() does with obb2 and  *)
(* obb1.  last is the previous verdict and runs counts the runs of         *)
(* Intersect verdicts begun so far.  With half extent 2 the boxes are the  *)
(* unit cubes and the sweep runs from x = -2 to x = 2 in steps of 0.25.    *)
(***************************************************************************)
SweepSizes == {<<1, 1>>, <<2, 2>>, <<1, 2>>, <<2, 1>>}

SweepInit ==
    /\ InitFrames
    /\ pos = 0 - SweepHalf
    /\ half \in SweepSizes
    /\ last = FALSE
    /\ runs = 0
    /\ InitUpdate

SweepCall ==
    /\ pc[1] = "idle"
    /\ pos <= SweepHalf
    /\ Enter(1, Cube(<<pos, 0, 0>>, half[1]), Cube(Zero, half[2]))
    /\ UNCHANGED callerVars

SweepReturn ==
    /\ pc[1] = "done"
    /\ pc' = [pc EXCEPT ![1] = "idle"]
    /\ runs' = IF ret[1] /\ ~last THEN runs + 1 ELSE runs
    /\ last' = ret[1]
    /\ pos' = pos + 1
    /\ UNCHANGED <<simplex, A, B, dir, ret, iter, sup, co, entry, half, updateVars>>

NextSweep ==
    \/ SweepCall
    \/ L348(1)
    \/ L352(1)
    \/ L356(1)
    \/ L368(1)
    \/ L385(1)
    \/ SweepReturn

SpecSweep == SweepInit /\ [][NextSweep]_vars

(***************************************************************************)
(* SpecUpdate: update() run once every physics step.  One run is           *)
(* UpdateCall (the boundary test, the new corners of both boxes and the    *)
(* call TestGJK(obb2, obb1)), the statements of TestGJK, and               *)
(* UpdateResponse (the branch on the verdict and on antiStuck, and the     *)
(* move of obj2).  Both objects are turned by the same angles every step;  *)
(* the orientation of a step is either of two: the boxes straight, or      *)
(* turned by 45 degrees about y (half axes rounded to whole units).        *)
(***************************************************************************)
Box(h) == << <<h, 0, 0>>, <<0, h, 0>>, <<0, 0, h>> >>

Turned(k, h) == << <<k, 0, 0 - k>>, <<0, h, 0>>, <<k, 0, k>> >>

\* the half axes of obj2 and obj1 in the orientations of the model
UpdateAxes == { <<Box(Half2), Box(Half1)>>, <<Turned(3, Half2), Turned(12, Half1)>> }

Abs(x) == IF x < 0 THEN 0 - x ELSE x

\* Respond with the test of antiStuck left out
RespondM(hit, stuck) == hit

\* the condition of line 441
Respond(hit, stuck) == hit /\ ~stuck

\* lines 398-441: the boundary bounce, the corners, the call of TestGJK
UpdateCall ==
    /\ pc[1] = "idle"
    /\ velocity' = IF Abs(position) > BoundX THEN 0 - velocity ELSE velocity
    /\ \E ax \in UpdateAxes :
          Enter(1, OBB(<<position, 0, 0>>, ax[1]), OBB(Zero, ax[2]))
    /\ UNCHANGED <<sweepVars, antiStuck, position, log>>

\* lines 441-463: the collision response or the reset of antiStuck, then
\* obj2->Update(dt) moves obj2 by its velocity
UpdateResponse ==
    /\ pc[1] = "done"
    /\ pc' = [pc EXCEPT ![1] = "idle"]
    /\ LET fire == Respond(ret[1], antiStuck)
           v == IF fire THEN 0 - velocity ELSE velocity
       IN  /\ velocity' = v
           /\ antiStuck' = IF fire THEN TRUE ELSE IF antiStuck THEN FALSE ELSE antiStuck
           /\ position' = position + v
           /\ log' = <<log[2], [hit |-> ret[1], fired |-> fire]>>
    /\ UNCHANGED <<simplex, A, B, dir, ret, iter, sup, co, entry, sweepVars>>

NextUpdate ==
    \/ UpdateCall
    \/ L348(1)
    \/ L352(1)
    \/ L356(1)
    \/ L368(1)
    \/ L385(1)
    \/ UpdateResponse

SpecUpdate == Init /\ [][NextUpdate]_vars

(***************************************************************************)
(* SpecSimplex: ContainsOrigin applied once to a simplex of 2, 3 or 4      *)
(* points.  The newest point a ranges over the grid of MaxCoord, the       *)
(* older points over BasePoints.                                           *)
(***************************************************************************)
BasePoints == { <<1, 0, 0>>, <<0, 1, 0>>, <<0, 0, 1>>, <<-1, -1, -1>>,
                <<1, 1, 0>>, <<-1, 0, 1>>, <<0, -1, 0>>, <<-1, 1, -1>> }

GridPoints == {<<x, y, z>> : x \in -MaxCoord..MaxCoord,
                             y \in -MaxCoord..MaxCoord,
                             z \in -MaxCoord..MaxCoord}

\* the simplices of 2, 3 and 4 points whose newest point is a
Simplices(a) ==
    {<<b, a>> : b \in BasePoints}
    \cup {<<c, b, a>> : c \in BasePoints, b \in BasePoints}
    \cup {<<d, c, b, a>> : d \in BasePoints, c \in BasePoints, b \in BasePoints}

SimplexInit ==
    /\ \E a \in GridPoints : simplex \in Simplices(a)
    /\ A = [t \in Invocations |-> UnitCube]
    /\ B = [t \in Invocations |-> UnitCube]
    /\ dir = [t \in Invocations |-> Seed]
    /\ pc = [t \in Invocations |-> IF t = 1 THEN "L385" ELSE "idle"]
    /\ ret = [t \in Invocations |-> FALSE]
    /\ iter = [t \in Invocations |-> 0]
    /\ sup = [t \in Invocations |-> NoSupport]
    /\ co = [t \in Invocations |-> NoCall]
    /\ entry = [t \in Invocations |-> << >>]
    /\ pos = 0
    /\ half = <<1, 1>>
    /\ last = FALSE
    /\ runs = 0
    /\ InitUpdate

NextSimplex == L385(1)

SpecSimplex == SimplexInit /\ [][NextSimplex]_vars

(***************************************************************************)
(* Geometry the claims are stated with.                                    *)
(***************************************************************************)
\* p is one of the Minkowski-difference points a_i - b_j of two hulls
IsMinkowskiPoint(p, a, b) == \E i \in 1..8 : \E j \in 1..8 : p = Sub(a[i], b[j])

Det(u, v, w) == Dot(u, Cross(v, w))

\* the origin lies in the (non-degenerate) tetrahedron of the four points of
\* s, boundary included: its four barycentric coordinates have the sign of
\* the tetrahedron's volume or are zero
OriginInTetrahedron(s) ==
    /\ Len(s) = 4
    /\ LET vol == Det(Sub(s[2], s[1]), Sub(s[3], s[1]), Sub(s[4], s[1]))
           w1 == Det(s[2], s[3], s[4])
           w2 == 0 - Det(s[1], s[3], s[4])
           w3 == Det(s[1], s[2], s[4])
           w4 == 0 - Det(s[1], s[2], s[3])
       IN  /\ vol # 0
           /\ w1 * vol >= 0
           /\ w2 * vol >= 0
           /\ w3 * vol >= 0
           /\ w4 * vol >= 0

\* directions along which a separating plane is looked for
SeparatingDirs == {<<x, y, z>> : x \in -1..1, y \in -1..1, z \in -1..1} \ {Zero}

\* a plane through the origin has every Minkowski-difference point strictly
\* on one side: the hulls are strictly separated
Separated(a, b) ==
    \E d \in SeparatingDirs : \A i \in 1..8 : \A j \in 1..8 : Dot(Sub(a[i], b[j]), d) > 0

(***************************************************************************)
(* Claims.                                                                 *)
(***************************************************************************)
\* C1: TestGJK called on two identical axis-aligned unit cubes both centred
\* at (0,0,0) returns Intersect.
C1_IdenticalCubesIntersect ==
    (pc[1] = "done" /\ A[1] = UnitCube /\ B[1] = UnitCube) => ret[1] = TRUE

\* C2: TestGJK returns true only if the origin lies in the convex hull of the
\* Minkowski-difference points: the simplex it returns true on consists of
\* Minkowski-difference points and its tetrahedron holds the origin; strictly
\* separated hulls, the unit cubes at (0,0,0) and (10,0,0) among them, yield
\* NoIntersect.
C2_TrueOnlyIfOriginInHull ==
    /\ (pc[1] = "done" /\ ret[1]) =>
          /\ \A k \in 1..Len(simplex) : IsMinkowskiPoint(simplex[k], A[1], B[1])
          /\ OriginInTetrahedron(simplex)
          /\ ~Separated(A[1], B[1])
    /\ (pc[1] = "done" /\ A[1] = UnitCube /\ B[1] = FarCube) => ~ret[1]

C2_Witness ==
    /\ pc[1] = "done"
    /\ ret[1]
    /\ OriginInTetrahedron(simplex)
    /\ iter[1] >= 3

\* C3: the while loop of TestGJK reaches a verdict within at most 20 passes:
\* the pass counter never exceeds 20 (the loop could run on to MaxIter).
C3_TerminatesWithin20 == iter[1] <= 20

C3_Witness ==
    /\ pc[1] = "done"
    /\ iter[1] >= 4

\* C4: TestGJK(A,B) and TestGJK(B,A) return the same verdict.
C4_Symmetric ==
    pc[1] = "done" => Verdict(ret[1]) = TestGJK(B[1], A[1])

\* C8: the direction passed to Support is never the zero vector.
C8_DirectionNonZero ==
    \A t \in Invocations : sup[t].called => sup[t].dir # Zero

\* the lowest index among the corners of hull h with the largest projection
\* on d
ArgMaxIndex(h, d) ==
    CHOOSE i \in 1..8 :
        /\ \A k \in 1..8 : Dot(h[k], d) <= Dot(h[i], d)
        /\ \A k \in 1..(i - 1) : Dot(h[k], d) < Dot(h[i], d)

\* C9: for a non-zero direction d, Support(A,B,d) is p1 - p2 for the
\* lowest-index corner p1 of A maximising dot(p,d) and the lowest-index corner
\* p2 of B maximising dot(p,-d), and its projection on d is the maximum of
\* dot(a_i - b_j, d) over all corner pairs.
C9_SupportIsArgMax ==
    \A t \in Invocations :
        (sup[t].called /\ sup[t].dir # Zero) =>
            LET d == sup[t].dir
                p == sup[t].point
            IN  /\ p = Sub(A[t][ArgMaxIndex(A[t], d)], B[t][ArgMaxIndex(B[t], Neg(d))])
                /\ \A i \in 1..8 : \A j \in 1..8 :
                      Dot(Sub(A[t][i], B[t][j]), d) <= Dot(p, d)

\* a Support call with a non-zero direction on which two corners of A tie for
\* the largest projection
C9_Witness ==
    /\ sup[1].called
    /\ sup[1].dir # Zero
    /\ \E i \in 1..8 : \E k \in 1..8 :
          /\ i < k
          /\ A[1][i] # A[1][k]
          /\ Dot(A[1][i], sup[1].dir) = Dot(A[1][k], sup[1].dir)
          /\ \A m \in 1..8 : Dot(A[1][m], sup[1].dir) <= Dot(A[1][i], sup[1].dir)

\* C5: over the sweep the verdicts are NoIntersect..., Intersect...,
\* NoIntersect...: one run of Intersect and no more, and the run has occurred
\* once the sweep is over.
C5_OneContiguousRun ==
    /\ runs <= 1
    /\ pos > SweepHalf => runs = 1

\* C6: whatever the global simplex holds when TestGJK is entered, the verdict
\* is the one TestGJK gives on the two hulls from an empty simplex, so
\* repeated calls with the same hulls return the same verdict.
C6_VerdictOfHullsOnly ==
    pc[1] = "done" => Verdict(ret[1]) = TestGJK(A[1], B[1])

\* a later call on the face-touching cubes, entered with a simplex another
\* call left, has returned
C6_Witness ==
    /\ pc[1] = "done"
    /\ A[1] = UnitCube
    /\ B[1] = TouchCube
    /\ Len(entry[1]) >= 2
    /\ \E k \in 1..Len(entry[1]) : ~IsMinkowskiPoint(entry[1][k], UnitCube, TouchCube)

\* C7: with the steps of two invocations interleaved, each returns the
\* verdict it returns when run alone.
C7_Reentrant ==
    \A t \in Invocations :
        pc[t] = "done" => Verdict(ret[t]) = TestGJK(A[t], B[t])

\* the three face tests on a 4-point simplex [d,c,b,a], as the claim states
\* them
FaceDots(s) ==
    LET a == s[4]
        ab == Sub(s[3], a)
        ac == Sub(s[2], a)
        ad == Sub(s[1], a)
    IN  <<Dot(Cross(ab, ac), Neg(a)), Dot(Cross(ac, ad), Neg(a)), Dot(Cross(ad, ab), Neg(a))>>

NoFaceOutside(s) == \A k \in 1..3 : FaceDots(s)[k] <= 0

\* C10: on a 4-point simplex ContainsOrigin returns true exactly when none
\* of the three face tests is strictly positive (a dot product of zero counts
\* as not outside), and then leaves the simplex unchanged.
C10_TetrahedronContainment ==
    [][(pc[1] = "L385" /\ Len(simplex) = 4) =>
          /\ (pc'[1] = "done" /\ ret'[1]) <=> NoFaceOutside(simplex)
          /\ NoFaceOutside(simplex) => simplex' = simplex]_vars

\* ContainsOrigin has returned true on a tetrahedron with the origin exactly
\* on a face adjacent to a
C10_Witness ==
    /\ pc[1] = "done"
    /\ ret[1]
    /\ Len(simplex) = 4
    /\ NoFaceOutside(simplex)
    /\ \E k \in 1..3 : FaceDots(simplex)[k] = 0
    /\ \E k \in 1..3 : FaceDots(simplex)[k] < 0

\* the newest point of a simplex: simplex.back()
Back(s) == s[Len(s)]

\* C11: the test after the second support point returns NoIntersect exactly
\* when dot(point, dir) < 0 (a dot of 0 goes on to the loop); the test in the
\* loop returns NoIntersect exactly when dot(newestPoint, dir) <= 0;
\* ContainsOrigin is invoked only for a newest point with dot > 0; and
\* Intersect is returned only by a ContainsOrigin call that returned true.
C11_ProgressTests ==
    [][/\ pc[1] = "L356" =>
              /\ pc'[1] = "done" <=> Dot(Back(simplex'), dir[1]) < 0
              /\ pc'[1] = "done" => ~ret'[1]
              /\ pc'[1] # "done" => pc'[1] = "L368"
       /\ pc[1] = "L368" =>
              /\ pc'[1] = "done" <=> Dot(Back(simplex'), dir[1]) <= 0
              /\ pc'[1] = "done" => ~ret'[1]
              /\ pc'[1] # "done" => pc'[1] = "L385"
       /\ pc'[1] = "L385" => Dot(Back(simplex'), dir'[1]) > 0
       /\ (pc[1] # "done" /\ pc'[1] = "done" /\ ret'[1]) =>
              /\ pc[1] = "L385"
              /\ ContainsOrigin(simplex, dir[1]).ret]_vars

\* the second support point had a dot of exactly 0 with its direction, the
\* call went on to the loop, and the loop returned NoIntersect on a dot of 0
C11_Witness ==
    /\ pc[1] = "done"
    /\ ~ret[1]
    /\ iter[1] = 1
    /\ Len(simplex) = 3
    /\ Dot(simplex[2], Neg(simplex[1])) = 0
    /\ Dot(sup[1].point, sup[1].dir) = 0

\* the unit vectors along the coordinate axes, both ways
UnitVectors == {<<1, 0, 0>>, <<-1, 0, 0>>, <<0, 1, 0>>, <<0, -1, 0>>,
                <<0, 0, 1>>, <<0, 0, -1>>}

\* the 24 rotations by multiples of 90 degrees about the coordinate axes, as
\* the rows of their matrices
Rotations ==
    {r \in {<<u, v, Cross(u, v)>> : u \in UnitVectors, v \in UnitVectors} :
        Dot(r[1], r[2]) = 0}

Rotate(r, v) == <<Dot(r[1], v), Dot(r[2], v), Dot(r[3], v)>>

\* the hull whose corner i is the rotated corner i, as the object's transform
\* gives it in update()
RotateHull(r, h) == [i \in 1..8 |-> Rotate(r, h[i])]

\* C12: rotating both hulls by the same multiple-of-90-degrees rotation does
\* not change the verdict of TestGJK.
C12_RotationInvariant ==
    pc[1] = "done" =>
        \A r \in Rotations :
            TestGJK(RotateHull(r, A[1]), RotateHull(r, B[1])) = Verdict(ret[1])

\* C13: on a 3-point simplex [c,b,a], with ab = b-a, ac = c-a and
\* abc = ab x ac, ContainsOrigin returns false and leaves [b,a] with dir
\* (ab x -a) x ab if (ab x abc).(-a) > 0; otherwise [c,a] with dir
\* (ac x -a) x ac if (abc x ac).(-a) > 0; otherwise the three points, as
\* [c,b,a] with dir abc if abc.(-a) > 0 and as [b,c,a] with dir -abc if not.
C13_TriangleBranch ==
    [][(pc[1] = "L385" /\ Len(simplex) = 3) =>
          LET c == simplex[1]
              b == simplex[2]
              a == simplex[3]
              ab == Sub(b, a)
              ac == Sub(c, a)
              abc == Cross(ab, ac)
          IN  /\ pc'[1] = "L368"
              /\ ret'[1] = ret[1]
              /\ IF Dot(Cross(ab, abc), Neg(a)) > 0
                 THEN /\ simplex' = <<b, a>>
                      /\ dir'[1] = Cross(Cross(ab, Neg(a)), ab)
                 ELSE IF Dot(Cross(abc, ac), Neg(a)) > 0
                 THEN /\ simplex' = <<c, a>>
                      /\ dir'[1] = Cross(Cross(ac, Neg(a)), ac)
                 ELSE IF Dot(abc, Neg(a)) > 0
                 THEN /\ simplex' = <<c, b, a>>
                      /\ dir'[1] = abc
                 ELSE /\ simplex' = <<b, c, a>>
                      /\ dir'[1] = Neg(abc)]_vars

\* ContainsOrigin has been applied to a triangle of three different points
\* with the origin exactly in its plane, and has swapped the first two
C13_Witness ==
    /\ pc[1] = "L368"
    /\ co[1].called
    /\ Len(co[1].simplex) = 3
    /\ simplex = <<co[1].simplex[2], co[1].simplex[1], co[1].simplex[3]>>
    /\ simplex # co[1].simplex
    /\ Dot(dir[1], simplex[3]) = 0
    /\ dir[1] # Zero

\* C14 as stated: a ContainsOrigin call on a 4-point simplex that does not
\* report containment returns false and leaves exactly one point fewer.
C14_ReducesByExactlyOne ==
    [][(pc[1] = "L385" /\ Len(simplex) = 4 /\ ~(pc'[1] = "done" /\ ret'[1])) =>
          /\ pc'[1] = "L368"
          /\ ret'[1] = ret[1]
          /\ Len(simplex') = 3]_vars

\* the points of a simplex
Points(s) == {s[k] : k \in 1..Len(s)}

\* C14 amended: a ContainsOrigin call on a 4-point simplex that does not
\* report containment returns false and reduces the simplex by one or two
\* points, to a 3-point or a 2-point simplex of points it held.
C14_ReducesByOneOrTwo ==
    [][(pc[1] = "L385" /\ Len(simplex) = 4 /\ ~(pc'[1] = "done" /\ ret'[1])) =>
          /\ pc'[1] = "L368"
          /\ ret'[1] = ret[1]
          /\ Len(simplex') \in {2, 3}
          /\ Points(simplex') \subseteq Points(simplex)]_vars

\* a call on a tetrahedron of four different points has left two of them
C14_Witness ==
    /\ pc[1] = "L368"
    /\ co[1].called
    /\ Len(co[1].simplex) = 4
    /\ Cardinality(Points(co[1].simplex)) = 4
    /\ Len(simplex) = 2
    /\ iter[1] >= 2

\* the first of the faces ABC, ACD, ADB (1, 2, 3) of the 4-point simplex s
\* whose test is strictly positive; 0 if there is none
FirstOutside(s) ==
    IF FaceDots(s)[1] > 0 THEN 1
    ELSE IF FaceDots(s)[2] > 0 THEN 2
    ELSE IF FaceDots(s)[3] > 0 THEN 3
    ELSE 0

\* the pair (b', c') of face k of [d,c,b,a]: (b,c), (c,d) or (d,b)
FacePair(s, k) ==
    IF k = 1 THEN <<s[3], s[2]>>
    ELSE IF k = 2 THEN <<s[2], s[1]>>
    ELSE <<s[1], s[3]>>

\* the vertex of [d,c,b,a] opposite face k: d, b or c
Opposite(s, k) == IF k = 1 THEN s[1] ELSE IF k = 2 THEN s[3] ELSE s[2]

\* C15: on a 4-point simplex [d,c,b,a] the first of the faces ABC, ACD, ADB
\* with normal.(-a) > 0 is selected, whatever the later faces' tests; the
\* simplex left is [c',b',a], [b',a] or [c',a] for the selected face's pair
\* (b',c'), and of four different points it holds no point twice and not the
\* vertex opposite the selected face.
C15_FirstFaceSelected ==
    [][(pc[1] = "L385" /\ Len(simplex) = 4 /\ FirstOutside(simplex) # 0) =>
          LET k == FirstOutside(simplex)
              a == simplex[4]
              bp == FacePair(simplex, k)[1]
              cp == FacePair(simplex, k)[2]
          IN  /\ simplex' \in {<<cp, bp, a>>, <<bp, a>>, <<cp, a>>}
              /\ Cardinality(Points(simplex)) = 4 =>
                    /\ Cardinality(Points(simplex')) = Len(simplex')
                    /\ Opposite(simplex, k) \notin Points(simplex')]_vars

\* a call on four different points whose faces ACD and ADB both had the
\* origin outside (and ABC not) has kept the three points of face ACD
C15_Witness ==
    /\ pc[1] = "L368"
    /\ co[1].called
    /\ Len(co[1].simplex) = 4
    /\ Cardinality(Points(co[1].simplex)) = 4
    /\ FaceDots(co[1].simplex)[1] <= 0
    /\ FaceDots(co[1].simplex)[2] > 0
    /\ FaceDots(co[1].simplex)[3] > 0
    /\ simplex = <<co[1].simplex[1], co[1].simplex[2], co[1].simplex[4]>>

\* C16: during a TestGJK call the simplex never holds more than 4 points; at
\* the head of a loop pass it holds 2 or 3, so ContainsOrigin is called with
\* 3 or 4 points and never with 2; and from the push of the second point on
\* it never holds fewer than 2.
C16_SimplexSize ==
    /\ Len(simplex) <= 4
    /\ pc[1] = "L356" => Len(simplex) = 1
    /\ pc[1] = "L368" => Len(simplex) \in {2, 3}
    /\ pc[1] = "L385" => Len(simplex) \in {3, 4}
    /\ pc[1] \in {"L368", "L385", "done"} => Len(simplex) >= 2

\* ContainsOrigin is about to be called on 4 points after an earlier call
\* reduced a tetrahedron
C16_Witness ==
    /\ pc[1] = "L385"
    /\ Len(simplex) = 4
    /\ co[1].called
    /\ Len(co[1].simplex) = 4

\* C17: after every push and after every ContainsOrigin call that returned
\* false the last element of the simplex is the support point added most
\* recently: no reduction or relabelling removes or displaces it.
C17_NewestIsLast ==
    sup[1].called =>
        /\ Len(simplex) >= 1
        /\ Back(simplex) = sup[1].point

\* checkTetrahedron has cut a tetrahedron of four different points down to
\* an edge, and the newest point is the last of the two left
C17_Witness ==
    /\ pc[1] = "L368"
    /\ co[1].called
    /\ Len(co[1].simplex) = 4
    /\ Cardinality(Points(co[1].simplex)) = 4
    /\ Len(simplex) = 2
    /\ Back(simplex) = sup[1].point
    /\ simplex[1] # simplex[2]

\* C18: from the clear of line 348 on, every point in the simplex is a
\* Minkowski-difference point a_i - b_j of the two hulls of the call; a push
\* adds the point Support returned and nothing else, and ContainsOrigin and
\* checkTetrahedron only copy or remove points the simplex held.
C18_OnlySupportPoints ==
    [][/\ pc'[1] \in {"L352", "L356", "L368", "L385", "done"} =>
              \A k \in 1..Len(simplex') : IsMinkowskiPoint(simplex'[k], A'[1], B'[1])
       /\ pc[1] = "L348" => simplex' = << >>
       /\ pc[1] \in {"L352", "L356", "L368"} =>
              /\ simplex' = Append(simplex, sup'[1].point)
              /\ IsMinkowskiPoint(sup'[1].point, A[1], B[1])
       /\ pc[1] = "L385" => Points(simplex') \subseteq Points(simplex)]_vars

\* a call entered with points of an earlier call on other hulls in the
\* simplex has built a tetrahedron and reduced it
C18_Witness ==
    /\ pc[1] = "L368"
    /\ co[1].called
    /\ Len(co[1].simplex) = 4
    /\ Len(entry[1]) >= 2
    /\ \E k \in 1..Len(entry[1]) : ~IsMinkowskiPoint(entry[1][k], A[1], B[1])
    /\ \A k \in 1..Len(simplex) : IsMinkowskiPoint(simplex[k], A[1], B[1])

\* C19: the collision response (velocity.x negated, antiStuck set) runs only
\* when TestGJK reported Intersect and antiStuck was false; an update entered
\* with antiStuck set clears it and leaves the velocity alone, so the response
\* never runs in two updates in a row.
C19_NoConsecutiveResponse ==
    [][(pc[1] = "done" /\ pc'[1] = "idle") =>
          /\ velocity' # velocity => (ret[1] /\ ~antiStuck /\ antiStuck')
          /\ velocity' # velocity <=> log'[2].fired
          /\ antiStuck' => velocity' = 0 - velocity
          /\ antiStuck => (~antiStuck' /\ velocity' = velocity)
          /\ ~(log'[1].fired /\ log'[2].fired)]_vars

\* TestGJK reported Intersect in two updates in a row; the response ran in
\* the first and not in the second, which cleared antiStuck
C19_Witness ==
    /\ pc[1] = "idle"
    /\ log[1].hit
    /\ log[1].fired
    /\ log[2].hit
    /\ ~log[2].fired
    /\ ~antiStuck

\* C20: a loop pass entered with the zero vector as direction returns
\* NoIntersect: Support returns corner 0 of A minus corner 0 of B, that point
\* is pushed, its dot with the direction is 0 and ContainsOrigin is not
\* called.
C20_ZeroDirectionReturns ==
    [][(pc[1] = "L368" /\ dir[1] = Zero) =>
          /\ sup'[1].dir = Zero
          /\ sup'[1].point = Sub(A[1][1], B[1][1])
          /\ simplex' = Append(simplex, Sub(A[1][1], B[1][1]))
          /\ pc'[1] = "done"
          /\ ~ret'[1]
          /\ co' = co]_vars

\* the first pass of the loop was entered with the zero direction of line 363
C20_Witness ==
    /\ pc[1] = "done"
    /\ ~ret[1]
    /\ sup[1].dir = Zero
    /\ sup[1].point = Sub(A[1][1], B[1][1])
    /\ sup[1].point # Zero
    /\ iter[1] = 1

====
